---- MODULE Spec2Model ----
(***************************************************************************)
(* Merkle tree containers of MarcosNicolau/merkle-tree: the compact        *)
(* variant (src/src/mk/compact.rs) and the full variant                    *)
(* (src/src/mk/full.rs over the Rc/Weak node graph of src/src/tree.rs).    *)
(* Both containers are built from the same items and driven by the same    *)
(* calls.                                                                  *)
(***************************************************************************)
EXTENDS Integers, Sequences, FiniteSets, TLC

\* ------------------------------------------------------------------ bounds
\* largest number of leaves a container is grown to
MaxLeaves == 5

\* ------------------------------------------------------------ hash layer
\* A byte string is either a caller's raw item or the bytes of two hashes
\* fed to the hasher one after the other (new_with_prefix(a); update(b)).
Raw(k) == <<"raw", k>>
Concat(a, b) == <<"cat", a, b>>

\* the digest function, collision-free: distinct byte strings, distinct hashes
Digest(bytes) == <<bytes>>

get_hash_from_data(el) == Digest(el)

get_combined_hash(a, b) == Digest(Concat(a, b))

is_even(num) == num % 2 = 0

\* the items callers pass, and an item that is in no tree ("not right")
Items == {Raw(1), Raw(2)}
NotRight == Raw(0)

\* Option<T>
None == <<>>
Some(v) == <<v>>

\* ------------------------------------------------------- compact variant
\* Compact_chunk_parent with the lone trailing node carried up as it is
Compact_chunk_parent_carry(nodes, i) ==
    IF i + 1 <= Len(nodes)
    THEN get_combined_hash(nodes[i], nodes[i + 1])
    ELSE nodes[i]

\* one step of chunks(2).map(..): the parent of the chunk starting at i
Compact_chunk_parent(nodes, i) ==
    IF i + 1 <= Len(nodes)
    THEN get_combined_hash(nodes[i], nodes[i + 1])
    ELSE get_combined_hash(nodes[i], nodes[i])

get_parent_nodes(nodes) ==
    [k \in 1..((Len(nodes) + 1) \div 2) |-> Compact_chunk_parent(nodes, 2 * k - 1)]

\* calculate_root reducing once before it tests the length (do .. while)
RECURSIVE calculate_root_once(_)
calculate_root_once(leaves) ==
    IF Len(leaves) = 0 THEN <<"Panic">>
    ELSE IF Len(get_parent_nodes(leaves)) > 1
    THEN calculate_root_once(get_parent_nodes(leaves))
    ELSE <<"Ok", get_parent_nodes(leaves)[1]>>

\* Ok(root) or Panic (unwrap of leaves.get(0) on an empty level)
RECURSIVE calculate_root(_)
calculate_root(leaves) ==
    IF Len(leaves) > 1 THEN calculate_root(get_parent_nodes(leaves))
    ELSE IF Len(leaves) = 1 THEN <<"Ok", leaves[1]>>
    ELSE <<"Panic">>

Compact_get_leaves_from(data) == [k \in 1..Len(data) |-> get_hash_from_data(data[k])]

\* Vec::get with a 0-based index
Get(vec, i) == IF i >= 0 /\ i < Len(vec) THEN Some(vec[i + 1]) ELSE None

\* Vec::remove with a 0-based index
Remove(vec, i) == [k \in 1..(Len(vec) - 1) |-> IF k <= i THEN vec[k] ELSE vec[k + 1]]

\* Compact_gen_proof_loop without leaf_idx /= 2
RECURSIVE Compact_gen_proof_loop_keep(_, _, _)
Compact_gen_proof_loop_keep(nodes, leaf_idx, proof) ==
    IF Len(nodes) > 1
    THEN LET sibling_idx == IF is_even(leaf_idx) THEN leaf_idx + 1 ELSE leaf_idx - 1
             first == Get(nodes, sibling_idx)
             sibling == IF first = None THEN Get(nodes, leaf_idx) ELSE first
         IN  IF sibling_idx < 0 \/ sibling = None
             THEN <<"Panic">>
             ELSE Compact_gen_proof_loop_keep(get_parent_nodes(nodes), leaf_idx,
                                              Append(proof, sibling[1]))
    ELSE <<"Ok", proof>>

\* the while loop of gen_proof; Ok(proof) or Panic (usize underflow of
\* leaf_idx - 1, unwrap of a missing sibling)
RECURSIVE Compact_gen_proof_loop(_, _, _)
Compact_gen_proof_loop(nodes, leaf_idx, proof) ==
    IF Len(nodes) > 1
    THEN LET sibling_idx == IF is_even(leaf_idx) THEN leaf_idx + 1 ELSE leaf_idx - 1
             first == Get(nodes, sibling_idx)
             sibling == IF first = None THEN Get(nodes, leaf_idx) ELSE first
         IN  IF sibling_idx < 0 \/ sibling = None
             THEN <<"Panic">>
             ELSE Compact_gen_proof_loop(get_parent_nodes(nodes), leaf_idx \div 2,
                                         Append(proof, sibling[1]))
    ELSE <<"Ok", proof>>

\* Compact_gen_proof with the range test off by one
Compact_gen_proof_past(leaves, leaf_idx) ==
    IF leaf_idx > Len(leaves)
    THEN <<"Err">>
    ELSE Compact_gen_proof_loop(leaves, leaf_idx, <<>>)

Compact_gen_proof(leaves, leaf_idx) ==
    IF Get(leaves, leaf_idx) = None
    THEN <<"Err">>
    ELSE Compact_gen_proof_loop(leaves, leaf_idx, <<>>)

\* verify_proof_fold with the proof hash passed twice in the odd branch
RECURSIVE verify_proof_fold_twice(_, _, _)
verify_proof_fold_twice(leaf_hash, leaf_idx, proof) ==
    IF proof = <<>>
    THEN leaf_hash
    ELSE verify_proof_fold_twice(IF is_even(leaf_idx)
                                 THEN get_combined_hash(leaf_hash, Head(proof))
                                 ELSE get_combined_hash(Head(proof), Head(proof)),
                                 leaf_idx \div 2, Tail(proof))

\* the for loop of verify_proof: the hash computed from the proof
RECURSIVE verify_proof_fold(_, _, _)
verify_proof_fold(leaf_hash, leaf_idx, proof) ==
    IF proof = <<>>
    THEN leaf_hash
    ELSE verify_proof_fold(IF is_even(leaf_idx)
                           THEN get_combined_hash(leaf_hash, Head(proof))
                           ELSE get_combined_hash(Head(proof), leaf_hash),
                           leaf_idx \div 2, Tail(proof))

verify_proof(root_hash, leaf_hash, leaf_idx, proof) ==
    verify_proof_fold(leaf_hash, leaf_idx, proof) = root_hash

\* ---------------------------------------------------------- node graph
\* The heap maps the address of every live Rc<RefCell<Node>> to its Node.
\* children holds owning references (Rc), parent and siblings hold
\* non-owning ones (Weak); a Weak whose node was dropped is Dangling.
Dangling == 0

\* the address a new allocation gets: the live nodes have the addresses
\* 1..N (see Addresses), the next one is free
Alloc(h) == Cardinality(DOMAIN h) + 1

Node_new(h, value, children, siblings, parent) ==
    LET n == Alloc(h)
    IN  [heap |-> h @@ (n :> [value |-> value, parent |-> parent,
                              children |-> children, siblings |-> siblings]),
         id |-> n]

Node_clone(h, a) ==
    Node_new(h, h[a].value, h[a].children, h[a].siblings, h[a].parent)

\* set_parent_and_siblings_from without the Rc::ptr_eq test: a node is
\* listed among its own siblings
RECURSIVE set_parent_and_siblings_self(_, _, _, _)
set_parent_and_siblings_self(h, parent, siblings, k) ==
    IF k > Len(siblings)
    THEN h
    ELSE set_parent_and_siblings_self(
             [h EXCEPT ![siblings[k]].parent = Some(parent),
                       ![siblings[k]].siblings = Some(siblings)],
             parent, siblings, k + 1)

\* for sibling in siblings: the node gets the parent, and the other nodes of
\* the list (those that are not the same Rc) as its siblings
RECURSIVE set_parent_and_siblings_from(_, _, _, _)
set_parent_and_siblings_from(h, parent, siblings, k) ==
    IF k > Len(siblings)
    THEN h
    ELSE set_parent_and_siblings_from(
             [h EXCEPT ![siblings[k]].parent = Some(parent),
                       ![siblings[k]].siblings =
                           Some(SelectSeq(siblings, LAMBDA o : o # siblings[k]))],
             parent, siblings, k + 1)

set_parent_and_siblings(h, parent, siblings) ==
    set_parent_and_siblings_from(h, parent, siblings, 1)

\* Weak::upgrade
upgrade(h, weak) == IF weak \in DOMAIN h THEN Some(weak) ELSE None

get_sibling(h, n, idx) ==
    IF h[n].siblings = None
    THEN None
    ELSE LET weak == Get(h[n].siblings[1], idx)
         IN  IF weak = None THEN None ELSE upgrade(h, weak[1])

get_parent(h, n) ==
    IF h[n].parent = None THEN None ELSE upgrade(h, h[n].parent[1])

\* the nodes kept alive by owning references, starting from the given ones
RECURSIVE Owned(_, _)
Owned(h, nodes) ==
    LET more == nodes \cup UNION {IF h[n].children = None THEN {}
                                  ELSE {h[n].children[1][k] : k \in 1..Len(h[n].children[1])}
                                  : n \in nodes}
    IN  IF more = nodes THEN nodes ELSE Owned(h, more)

\* the nodes reached when parent and sibling references count as owners too
RECURSIVE Referenced(_, _)
Referenced(h, nodes) ==
    LET refs(field) == IF field = None THEN {}
                       ELSE {field[1][k] : k \in 1..Len(field[1])} \ {Dangling}
        up(n) == IF h[n].parent = None THEN {} ELSE {h[n].parent[1]} \ {Dangling}
        more == nodes \cup UNION {refs(h[n].children) \cup refs(h[n].siblings) \cup up(n)
                                     : n \in nodes}
    IN  IF more = nodes THEN nodes ELSE Referenced(h, more)

\* Drop with the parent and sibling references keeping their targets alive
Drop_weak(h, roots) ==
    LET live == Referenced(h, roots)
    IN  [m \in live |-> h[m]]

\* dropping the last owning reference frees a node; the Weak references to
\* it are left dangling
Drop(h, roots) ==
    LET live == Owned(h, roots)
        weak(w) == IF w \in live THEN w ELSE Dangling
    IN  [m \in live |->
           [h[m] EXCEPT !.parent = IF @ = None THEN None ELSE Some(weak(@[1])),
                        !.siblings = IF @ = None THEN None
                                     ELSE Some([k \in 1..Len(@[1]) |-> weak(@[1][k])])]]

\* Addresses are only ever compared for identity (Rc::ptr_eq), so the heap
\* is kept up to renaming: the leaves take the addresses 1..n in leaf order,
\* the other nodes follow in the order they were allocated.
Addresses(h, leaves) ==
    LET isLeaf(m) == \E k \in 1..Len(leaves) : leaves[k] = m
        position(m) == CHOOSE k \in 1..Len(leaves) : leaves[k] = m
        inner == {m \in DOMAIN h : ~isLeaf(m)}
    IN  [m \in DOMAIN h |->
           IF isLeaf(m) THEN position(m)
           ELSE Len(leaves) + Cardinality({o \in inner : o <= m})]

Renamed(h, addr) ==
    LET to(w) == IF w = Dangling THEN Dangling ELSE addr[w]
        old(n) == CHOOSE m \in DOMAIN h : addr[m] = n
        seq(refs) == IF refs = None THEN None
                     ELSE Some([k \in 1..Len(refs[1]) |-> to(refs[1][k])])
    IN  [n \in {addr[m] : m \in DOMAIN h} |->
           [value |-> h[old(n)].value,
            parent |-> IF h[old(n)].parent = None THEN None
                       ELSE Some(to(h[old(n)].parent[1])),
            children |-> seq(h[old(n)].children),
            siblings |-> seq(h[old(n)].siblings)]]

\* ----------------------------------------------------------- full variant
\* create_node combining the two hashes in the other order
create_node_swapped(h, a, b) ==
    LET node == Node_new(h, get_combined_hash(h[b].value, h[a].value),
                         Some(<<a, b>>), None, None)
    IN  [heap |-> set_parent_and_siblings(node.heap, node.id, <<a, b>>),
         id |-> node.id]

create_node(h, a, b) ==
    LET node == Node_new(h, get_combined_hash(h[a].value, h[b].value),
                         Some(<<a, b>>), None, None)
    IN  [heap |-> set_parent_and_siblings(node.heap, node.id, <<a, b>>),
         id |-> node.id]

\* Full_chunks giving the lone trailing node a parent of one child and no
\* sibling (Node::set_parent, as src/src/mk.rs 57-67 does)
RECURSIVE Full_chunks_lone(_, _, _, _)
Full_chunks_lone(h, leaves, i, parents) ==
    IF i > Len(leaves)
    THEN [heap |-> h, nodes |-> parents]
    ELSE IF i + 1 <= Len(leaves)
    THEN LET node == create_node(h, leaves[i], leaves[i + 1])
         IN  Full_chunks_lone(node.heap, leaves, i + 2, Append(parents, node.id))
    ELSE LET node == Node_new(h, get_combined_hash(h[leaves[i]].value, h[leaves[i]].value),
                              Some(<<leaves[i]>>), None, None)
         IN  Full_chunks_lone([node.heap EXCEPT ![leaves[i]].parent = Some(node.id)],
                              leaves, i + 2, Append(parents, node.id))

\* one pass of leaves.chunks(2).map(..).collect(), from the chunk at i on
RECURSIVE Full_chunks(_, _, _, _)
Full_chunks(h, leaves, i, parents) ==
    IF i > Len(leaves)
    THEN [heap |-> h, nodes |-> parents]
    ELSE IF i + 1 <= Len(leaves)
    THEN LET node == create_node(h, leaves[i], leaves[i + 1])
         IN  Full_chunks(node.heap, leaves, i + 2, Append(parents, node.id))
    ELSE LET copy == Node_clone(h, leaves[i])
             node == create_node(copy.heap, leaves[i], copy.id)
         IN  Full_chunks(node.heap, leaves, i + 2, Append(parents, node.id))

\* while leaves.len() != 1 { .. }: on an empty vector every pass yields the
\* empty vector again and the loop never ends
RECURSIVE create_tree(_, _)
create_tree(h, leaves) ==
    IF Len(leaves) = 1
    THEN [heap |-> h, tree |-> leaves[1], returns |-> TRUE]
    ELSE IF Len(leaves) = 0
    THEN [heap |-> h, tree |-> Dangling, returns |-> FALSE]
    ELSE LET level == Full_chunks(h, leaves, 1, <<>>)
         IN  create_tree(level.heap, level.nodes)

\* Node::new for every item, in order
RECURSIVE Full_get_leaves_from(_, _, _)
Full_get_leaves_from(h, data, leaves) ==
    IF data = <<>>
    THEN [heap |-> h, leaves |-> leaves]
    ELSE LET node == Node_new(h, get_hash_from_data(Head(data)), None, None, None)
         IN  Full_get_leaves_from(node.heap, Tail(data), Append(leaves, node.id))

\* Full_gen_proof_loop pushing the hash of the node itself, not its sibling's
RECURSIVE Full_gen_proof_loop_own(_, _, _)
Full_gen_proof_loop_own(h, current_node, proof) ==
    LET sibling == get_sibling(h, current_node, 0)
    IN  IF sibling = None
        THEN <<"Ok", proof>>
        ELSE LET parent_node == get_parent(h, current_node)
             IN  IF parent_node = None
                 THEN <<"Panic">>
                 ELSE Full_gen_proof_loop_own(h, parent_node[1],
                                              Append(proof, h[current_node].value))

\* the loop of gen_proof: Ok(proof), or Panic when a node with a sibling
\* has no parent to unwrap
RECURSIVE Full_gen_proof_loop(_, _, _)
Full_gen_proof_loop(h, current_node, proof) ==
    LET sibling == get_sibling(h, current_node, 0)
    IN  IF sibling = None
        THEN <<"Ok", proof>>
        ELSE LET parent_node == get_parent(h, current_node)
             IN  IF parent_node = None
                 THEN <<"Panic">>
                 ELSE Full_gen_proof_loop(h, parent_node[1],
                                          Append(proof, h[sibling[1]].value))

Full_gen_proof(h, leaves, leaf_idx) ==
    IF Get(leaves, leaf_idx) = None
    THEN <<"Err">>
    ELSE Full_gen_proof_loop(h, Get(leaves, leaf_idx)[1], <<>>)

\* ------------------------------------------------------------------ state
VARIABLES
    compact_status,     \* "none" before construction, "ok", "panicked"
    compact_leaves,     \* CompactMerkleTree.leaves: the leaf hashes
    compact_root_hash,  \* CompactMerkleTree.root_hash
    full_status,        \* "none" before construction, "ok", "looping"
    heap,               \* the nodes FullMerkleTree keeps alive
    full_leaves,        \* FullMerkleTree.leaves: addresses of the leaf nodes
    full_tree,          \* FullMerkleTree.tree: address of the root node
    full_root_hash,     \* FullMerkleTree.root_hash
    held,               \* the leaf node a caller got from get_leaves and keeps
    ret                 \* the last call and what each variant returned

compact == <<compact_status, compact_leaves, compact_root_hash>>
full == <<full_status, heap, full_leaves, full_tree, full_root_hash>>
vars == <<compact, full, held, ret>>

NoHash == <<>>

\* a call: its name, its arguments (an index, a list of items, a hash and a
\* proof, as far as it takes them), what the compact and the full variant
\* returned
Call(op, index, data, hash, proof, c, f) ==
    [op |-> op, index |-> index, data |-> data, hash |-> hash, proof |-> proof,
     compact |-> c, full |-> f]

\* the arguments the calls are tried with
DataLists == UNION {[1..n -> Items] : n \in 0..MaxLeaves}
Indexes == 0..MaxLeaves

Init ==
    /\ compact_status = "none"
    /\ compact_leaves = <<>>
    /\ compact_root_hash = NoHash
    /\ full_status = "none"
    /\ heap = <<>>
    /\ full_leaves = <<>>
    /\ full_tree = Dangling
    /\ full_root_hash = NoHash
    /\ held = None
    /\ ret = Call("none", None, <<>>, None, <<>>, <<"Unit">>, <<"Unit">>)

\* ---------------------------------------------------------- construction
\* Compact_create refusing a single item as well
Compact_create_two(data) ==
    IF Len(data) <= 1
    THEN UNCHANGED compact
    ELSE /\ compact_status' = "ok"
         /\ compact_leaves' = Compact_get_leaves_from(data)
         /\ compact_root_hash' = calculate_root(compact_leaves')[2]

Compact_create(data) ==
    IF data = <<>>
    THEN UNCHANGED compact
    ELSE /\ compact_status' = "ok"
         /\ compact_leaves' = Compact_get_leaves_from(data)
         /\ compact_root_hash' = calculate_root(compact_leaves')[2]

Full_create(data) ==
    IF data = <<>>
    THEN UNCHANGED <<full, held>>
    ELSE LET leaves == Full_get_leaves_from(heap, data, <<>>)
             tree == create_tree(leaves.heap, leaves.leaves)
         IN  /\ full_status' = "ok"
             /\ heap' = tree.heap
             /\ full_leaves' = leaves.leaves
             /\ full_tree' = tree.tree
             /\ full_root_hash' = tree.heap[tree.tree].value
             /\ UNCHANGED held

Create(data) ==
    /\ compact_status = "none" /\ full_status = "none"
    /\ Compact_create(data)
    /\ Full_create(data)
    /\ ret' = Call("create", None, data, None, <<>>,
                   IF compact_status' = "ok" THEN <<"Some">> ELSE <<"None">>,
                   IF full_status' = "ok" THEN <<"Some">> ELSE <<"None">>)

\* From::from: create(value).expect("data can't be empty")
From(value) ==
    /\ compact_status = "none" /\ full_status = "none"
    /\ Compact_create(value)
    /\ Full_create(value)
    /\ ret' = Call("from", None, value, None, <<>>,
                   IF compact_status' = "ok" THEN <<"Self">> ELSE <<"Panic">>,
                   IF full_status' = "ok" THEN <<"Self">> ELSE <<"Panic">>)

\* -------------------------------------------------------------- mutations
\* rebuild_root over the new leaves; the panic of calculate_root unwinds
\* out of the call and leaves root_hash as it was
Compact_rebuild_root ==
    LET root_hash == calculate_root(compact_leaves')
    IN  IF root_hash[1] = "Ok"
        THEN compact_root_hash' = root_hash[2] /\ compact_status' = "ok"
        ELSE compact_root_hash' = compact_root_hash /\ compact_status' = "panicked"

\* Compact_add_leaf without the call of rebuild_root
Compact_add_leaf_stale(data) ==
    /\ compact_leaves' = Append(compact_leaves, get_hash_from_data(data))
    /\ UNCHANGED <<compact_status, compact_root_hash>>

Compact_add_leaf(data) ==
    /\ compact_leaves' = Append(compact_leaves, get_hash_from_data(data))
    /\ Compact_rebuild_root

\* Compact_delete_leaf with the range test off by one
Compact_delete_leaf_past(index) ==
    IF index <= Len(compact_leaves)
    THEN /\ compact_leaves' = Remove(compact_leaves, index)
         /\ Compact_rebuild_root
    ELSE UNCHANGED compact

Compact_delete_leaf(index) ==
    IF Get(compact_leaves, index) # None
    THEN /\ compact_leaves' = Remove(compact_leaves, index)
         /\ Compact_rebuild_root
    ELSE UNCHANGED compact

Compact_update_leaf(index, data) ==
    IF Get(compact_leaves, index) # None
    THEN /\ compact_leaves' = [compact_leaves EXCEPT ![index + 1] = get_hash_from_data(data)]
         /\ Compact_rebuild_root
    ELSE UNCHANGED compact

\* rebuild_tree over the new leaves, h being the heap the leaf change left;
\* assigning self.tree drops the previous tree, and what stays alive is what
\* the new tree, the leaves and a caller own
Full_rebuild_tree(h, leaves) ==
    \E tree \in {create_tree(h, leaves)} :
        IF tree.returns
        THEN \E live \in {Drop(tree.heap,
                               {tree.tree} \cup {leaves[k] : k \in 1..Len(leaves)}
                                   \cup {held[k] : k \in 1..Len(held)})} :
             \E addr \in {Addresses(live, leaves)} :
                 /\ heap' = Renamed(live, addr)
                 /\ full_leaves' = [k \in 1..Len(leaves) |-> addr[leaves[k]]]
                 /\ full_tree' = addr[tree.tree]
                 /\ full_root_hash' = tree.heap[tree.tree].value
                 /\ full_status' = "ok"
                 /\ held' = [k \in 1..Len(held) |-> addr[held[k]]]
        ELSE /\ heap' = h
             /\ full_leaves' = leaves
             /\ UNCHANGED <<full_tree, full_root_hash, held>>
             /\ full_status' = "looping"

Full_add_leaf(data) ==
    LET node == Node_new(heap, get_hash_from_data(data), None, None, None)
    IN  Full_rebuild_tree(node.heap, Append(full_leaves, node.id))

\* Full_delete_leaf popping the last leaf instead of removing the one at index
Full_delete_leaf_pop(index) ==
    IF Get(full_leaves, index) # None
    THEN Full_rebuild_tree(heap, Remove(full_leaves, Len(full_leaves) - 1))
    ELSE UNCHANGED <<full, held>>

Full_delete_leaf(index) ==
    IF Get(full_leaves, index) # None
    THEN Full_rebuild_tree(heap, Remove(full_leaves, index))
    ELSE UNCHANGED <<full, held>>

Full_update_leaf(index, data) ==
    IF Get(full_leaves, index) # None
    THEN Full_rebuild_tree([heap EXCEPT ![Get(full_leaves, index)[1]].value =
                                            get_hash_from_data(data)],
                           full_leaves)
    ELSE UNCHANGED <<full, held>>

\* the leaf hash sequence the full variant holds
Full_leaf_hashes == [k \in 1..Len(full_leaves) |-> heap[full_leaves[k]].value]

Running == compact_status = "ok" /\ full_status = "ok"

AddLeaf(data) ==
    /\ Running
    /\ Len(compact_leaves) < MaxLeaves
    /\ Compact_add_leaf(data)
    /\ Full_add_leaf(data)
    /\ ret' = Call("add_leaf", None, <<data>>, None, <<>>,
                   IF compact_status' = "ok" THEN <<"Unit">> ELSE <<"Panic">>,
                   IF full_status' = "ok" THEN <<"Unit">> ELSE <<"Loop">>)

DeleteLeaf(index) ==
    /\ Running
    /\ Compact_delete_leaf(index)
    /\ Full_delete_leaf(index)
    /\ ret' = Call("delete_leaf", Some(index), <<>>, None, <<>>,
                   IF compact_status' = "ok" THEN <<"Unit">> ELSE <<"Panic">>,
                   IF full_status' = "ok" THEN <<"Unit">> ELSE <<"Loop">>)

UpdateLeaf(index, data) ==
    /\ Running
    /\ Compact_update_leaf(index, data)
    /\ Full_update_leaf(index, data)
    /\ ret' = Call("update_leaf", Some(index), <<data>>, None, <<>>,
                   IF compact_status' = "ok" THEN <<"Unit">> ELSE <<"Panic">>,
                   IF full_status' = "ok" THEN <<"Unit">> ELSE <<"Loop">>)

\* ---------------------------------------------------------------- queries
\* GenProof taking the leaf out of the full variant's vector (Vec::remove
\* for Vec::get)
GenProof_remove(leaf_idx) ==
    /\ Running
    /\ ret' = Call("gen_proof", Some(leaf_idx), <<>>, None, <<>>,
                   Compact_gen_proof(compact_leaves, leaf_idx),
                   Full_gen_proof(heap, full_leaves, leaf_idx))
    /\ full_leaves' = IF Get(full_leaves, leaf_idx) = None THEN full_leaves
                      ELSE Remove(full_leaves, leaf_idx)
    /\ UNCHANGED <<compact, full_status, heap, full_tree, full_root_hash, held>>

GenProof(leaf_idx) ==
    /\ Running
    /\ ret' = Call("gen_proof", Some(leaf_idx), <<>>, None, <<>>,
                   Compact_gen_proof(compact_leaves, leaf_idx),
                   Full_gen_proof(heap, full_leaves, leaf_idx))
    /\ UNCHANGED <<compact, full, held>>

\* what verify_proof is called with for an index: the hash of that leaf,
\* the root hash or the hash of an item that is in no tree; the proof
\* gen_proof hands out for that leaf or the empty proof
CallHashes(leaf_idx) ==
    {compact_root_hash, get_hash_from_data(NotRight)}
        \cup {compact_leaves[k] : k \in {leaf_idx + 1} \cap DOMAIN compact_leaves}
CallProofs(leaf_idx) ==
    {<<>>} \cup {Compact_gen_proof(compact_leaves, j)[2] :
                    j \in {leaf_idx} \cap (0..(Len(compact_leaves) - 1))}

\* a returned bool
Bool(b) == IF b THEN <<"true">> ELSE <<"false">>

VerifyProof(leaf_hash, leaf_idx, proof) ==
    /\ Running
    /\ ret' = Call("verify_proof", Some(leaf_idx), <<>>, Some(leaf_hash), proof,
                   Bool(verify_proof(compact_root_hash, leaf_hash, leaf_idx, proof)),
                   Bool(verify_proof(full_root_hash, leaf_hash, leaf_idx, proof)))
    /\ UNCHANGED <<compact, full, held>>

\* --------------------------------------------------- lookup and membership
\* get_leaf_by_idx, get_leaf_by_hash and contains_hash are declared by the
\* trait and called by main and the tests; they are modelled as the trait
\* documents them. The result of a leaf lookup is given by the leaf's hash.
Found(leaf) == IF leaf = None THEN <<"None">> ELSE <<"Some", leaf[1]>>

\* the 0-based positions of the leaves with the given hash, as options; None
\* alone when there is no such leaf
Positions(leaf_hashes, hash) ==
    LET at == {i \in 0..(Len(leaf_hashes) - 1) : leaf_hashes[i + 1] = hash}
    IN  IF at = {} THEN {None} ELSE {Some(i) : i \in at}

\* the hashes looked up: those of the items and of an item in no tree
LookupHashes == {get_hash_from_data(x) : x \in Items \cup {NotRight}}

GetLeafByIdx(idx) ==
    /\ Running
    /\ ret' = Call("get_leaf_by_idx", Some(idx), <<>>, None, <<>>,
                   Found(Get(compact_leaves, idx)),
                   Found(Get(Full_leaf_hashes, idx)))
    /\ UNCHANGED <<compact, full, held>>

GetLeafByHash(hash) ==
    /\ Running
    /\ \E c \in Positions(compact_leaves, hash), f \in Positions(Full_leaf_hashes, hash) :
          ret' = Call("get_leaf_by_hash", None, <<>>, Some(hash), <<>>,
                      Found(IF c = None THEN None ELSE Get(compact_leaves, c[1])),
                      Found(IF f = None THEN None ELSE Get(Full_leaf_hashes, f[1])))
    /\ UNCHANGED <<compact, full, held>>

\* Some((idx, proof)) with the proof gen_proof gives for idx, or None
contains_hash(position, proof) ==
    IF position = None THEN <<"None">>
    ELSE IF proof[1] = "Ok" THEN <<"Some", position[1], proof[2]>>
    ELSE proof

ContainsHash(hash) ==
    /\ Running
    /\ \E c \in Positions(compact_leaves, hash), f \in Positions(Full_leaf_hashes, hash) :
          ret' = Call("contains_hash", None, <<>>, Some(hash), <<>>,
                      contains_hash(c, IF c = None THEN <<"Err">>
                                       ELSE Compact_gen_proof(compact_leaves, c[1])),
                      contains_hash(f, IF f = None THEN <<"Err">>
                                       ELSE Full_gen_proof(heap, full_leaves, f[1])))
    /\ UNCHANGED <<compact, full, held>>

Next ==
    \/ \E data \in DataLists : Create(data)
    \/ \E value \in DataLists : From(value)
    \/ \E data \in Items : AddLeaf(data)
    \/ \E index \in Indexes : DeleteLeaf(index)
    \/ \E index \in Indexes, data \in Items : UpdateLeaf(index, data)
    \/ \E leaf_idx \in Indexes : GenProof(leaf_idx)
    \/ \E leaf_idx \in Indexes :
          \E leaf_hash \in CallHashes(leaf_idx), proof \in CallProofs(leaf_idx) :
              VerifyProof(leaf_hash, leaf_idx, proof)
    \/ \E idx \in Indexes : GetLeafByIdx(idx)
    \/ \E hash \in LookupHashes : GetLeafByHash(hash)
    \/ \E hash \in LookupHashes : ContainsHash(hash)

Spec == Init /\ [][Next]_vars

\* ------------------------------------------------- a caller keeping leaves
\* get_leaves hands out the vector of leaves: copies of the hashes in the
\* compact variant, owning references (Rc) to the leaf nodes in the full
\* variant. The caller keeps the element at index of the vector and drops
\* the rest, and with it a node it kept before and nothing else owns.
GetLeaves(index) ==
    /\ Running
    /\ Get(full_leaves, index) # None
    /\ \E live \in {Drop(heap, {full_tree} \cup {full_leaves[k] : k \in 1..Len(full_leaves)})} :
       \E addr \in {Addresses(live, full_leaves)} :
           /\ heap' = Renamed(live, addr)
           /\ full_leaves' = [k \in 1..Len(full_leaves) |-> addr[full_leaves[k]]]
           /\ full_tree' = addr[full_tree]
           /\ held' = Some(full_leaves'[index + 1])
    /\ ret' = Call("get_leaves", Some(index), <<>>, None, <<>>,
                   <<"Ok", compact_leaves>>, <<"Ok", Full_leaf_hashes>>)
    /\ UNCHANGED <<compact, full_status, full_root_hash>>

\* the calls that build, change and walk the node graph, and get_leaves
NextHeld ==
    \/ \E data \in DataLists : Create(data)
    \/ \E data \in Items : AddLeaf(data)
    \/ \E index \in Indexes : DeleteLeaf(index)
    \/ \E index \in Indexes, data \in Items : UpdateLeaf(index, data)
    \/ \E leaf_idx \in Indexes : GenProof(leaf_idx)
    \/ \E index \in Indexes : GetLeaves(index)

\* the containers with a caller that keeps what get_leaves returned
SpecHeld == Init /\ [][NextHeld]_vars

\* ------------------------------------------------------------ properties
\* The reference reduction of a level: consecutive pairs left to right, a
\* lone trailing hash with itself.
RECURSIVE ReferenceLevel(_)
ReferenceLevel(level) ==
    IF Len(level) = 0 THEN <<>>
    ELSE IF Len(level) = 1 THEN <<get_combined_hash(level[1], level[1])>>
    ELSE <<get_combined_hash(level[1], level[2])>>
             \o ReferenceLevel(SubSeq(level, 3, Len(level)))

RECURSIVE ReferenceRoot(_)
ReferenceRoot(level) ==
    IF Len(level) = 1 THEN level[1] ELSE ReferenceRoot(ReferenceLevel(level))

\* C1: whenever a container holds leaves, after construction and after every
\* add_leaf, delete_leaf and update_leaf, its stored root_hash is the
\* reference reduction of its current leaf hash sequence (both variants).
C1_RootIsReduction ==
    /\ Len(compact_leaves) >= 1 => compact_root_hash = ReferenceRoot(compact_leaves)
    /\ Len(full_leaves) >= 1 => full_root_hash = ReferenceRoot(Full_leaf_hashes)

\* a delete has left an odd number (3) of leaves, and the root is the
\* reduction with the lone third leaf combined with itself
C1_Witness ==
    /\ ret.op = "delete_leaf" /\ ret.compact = <<"Unit">> /\ ret.full = <<"Unit">>
    /\ Len(compact_leaves) = 3 /\ Len(full_leaves) = 3
    /\ compact_leaves[1] # compact_leaves[3]
    /\ compact_root_hash =
         get_combined_hash(get_combined_hash(compact_leaves[1], compact_leaves[2]),
                           get_combined_hash(compact_leaves[3], compact_leaves[3]))
    /\ full_root_hash = compact_root_hash

RECURSIVE TreeHashes(_)
TreeHashes(level) ==
    {level[k] : k \in 1..Len(level)}
        \cup (IF Len(level) > 1 THEN TreeHashes(ReferenceLevel(level)) ELSE {})

\* the hashes a caller may claim for a leaf: the hashes of the items, of an
\* item in no tree, and every hash of the current tree
ClaimedHashes ==
    {get_hash_from_data(x) : x \in Items \cup {NotRight}} \cup TreeHashes(compact_leaves)

\* C3: for every valid index i and every hash h other than the hash of leaf
\* i, verify_proof(h, i, gen_proof(i)) is false (both variants).
C3_WrongHashRejected ==
    /\ \A i \in 0..(Len(compact_leaves) - 1) :
          \A h \in ClaimedHashes \ {compact_leaves[i + 1]} :
              ~verify_proof(compact_root_hash, h, i,
                            Compact_gen_proof(compact_leaves, i)[2])
    /\ \A i \in 0..(Len(full_leaves) - 1) :
          \A h \in ClaimedHashes \ {Full_leaf_hashes[i + 1]} :
              ~verify_proof(full_root_hash, h, i, Full_gen_proof(heap, full_leaves, i)[2])

\* verify_proof was called for leaf 2 of three with the proof of that leaf
\* and the hash of an item that is in no tree, and both variants said false
C3_Witness ==
    /\ ret.op = "verify_proof"
    /\ Len(compact_leaves) = 3
    /\ ret.hash = Some(get_hash_from_data(NotRight))
    /\ ret.index = Some(2)
    /\ ret.proof = Compact_gen_proof(compact_leaves, 2)[2]
    /\ ret.compact = <<"false">> /\ ret.full = <<"false">>

\* the proofs a caller may hand to verify_proof: the empty one and the ones
\* gen_proof hands out for the current leaves
ClaimedProofs ==
    {<<>>} \cup {Compact_gen_proof(compact_leaves, j)[2] : j \in 0..(Len(compact_leaves) - 1)}

\* C4: verify_proof(leaf_hash, leaf_idx, proof) is true only if leaf_idx is
\* a valid index and the leaf at leaf_idx has the hash leaf_hash, for every
\* hash, every index (in range or not) and every proof (both variants).
C4_TrueOnlyForThatLeaf ==
    \A h \in ClaimedHashes, i \in Indexes, proof \in ClaimedProofs :
        /\ (compact_status = "ok" /\ verify_proof(compact_root_hash, h, i, proof))
              => (i < Len(compact_leaves) /\ compact_leaves[i + 1] = h)
        /\ (full_status = "ok" /\ verify_proof(full_root_hash, h, i, proof))
              => (i < Len(full_leaves) /\ Full_leaf_hashes[i + 1] = h)

\* C5: create on an empty list returns None and leaves no container; on
\* every non-empty list it returns a container holding one leaf per item.
C5_CreateFailsOnlyOnEmpty ==
    [][ret'.op = "create" =>
          IF ret'.data = <<>>
          THEN /\ ret'.compact = <<"None">> /\ ret'.full = <<"None">>
               /\ compact_status' = "none" /\ full_status' = "none"
               /\ compact_leaves' = <<>> /\ full_leaves' = <<>> /\ heap' = <<>>
          ELSE /\ ret'.compact = <<"Some">> /\ ret'.full = <<"Some">>
               /\ compact_status' = "ok" /\ full_status' = "ok"
               /\ Len(compact_leaves') = Len(ret'.data)
               /\ Len(full_leaves') = Len(ret'.data)]_vars

\* create was called with the empty list: None, and no container
C5_Witness ==
    /\ ret.op = "create" /\ ret.data = <<>>
    /\ ret.compact = <<"None">> /\ ret.full = <<"None">>
    /\ compact_status = "none" /\ full_status = "none"

C8_OutOfRangeMutationNoOp ==
    [][(ret'.op \in {"delete_leaf", "update_leaf"}
          /\ ret'.index[1] >= Len(compact_leaves)) =>
          /\ UNCHANGED <<compact, full>>
          /\ ret'.compact = <<"Unit">> /\ ret'.full = <<"Unit">>]_vars

\* update_leaf was called with the leaf count as index
C8_Witness ==
    /\ ret.op = "update_leaf"
    /\ Len(compact_leaves) >= 1
    /\ ret.index = Some(Len(compact_leaves))
    /\ ret.compact = <<"Unit">> /\ ret.full = <<"Unit">>

\* C9: once a container is constructed, its leaf sequence has at least one
\* element, whatever add_leaf, delete_leaf and update_leaf calls follow.
C9_LeavesNeverEmpty ==
    /\ compact_status # "none" => Len(compact_leaves) >= 1
    /\ full_status # "none" => Len(full_leaves) >= 1

\* C10: no call panics: construction, add_leaf, delete_leaf, update_leaf,
\* gen_proof and verify_proof return a normal result for every argument, in
\* both variants (no panic, and no call that never returns).
C10_NoPanic ==
    /\ ret.compact[1] \notin {"Panic", "Loop"}
    /\ ret.full[1] \notin {"Panic", "Loop"}

\* C11: every call returns: no construction, add_leaf, delete_leaf,
\* update_leaf, gen_proof or verify_proof call runs forever, neither in its
\* own loop nor in the rebuild loop it triggers.
C11_EveryCallReturns ==
    /\ full_status # "looping"
    /\ ret.compact # <<"Loop">> /\ ret.full # <<"Loop">>

\* the leaf sequence without the element at the 0-based position i
DeletedAt(leaves, i) == SubSeq(leaves, 1, i) \o SubSeq(leaves, i + 2, Len(leaves))

\* C12: a valid mutation changes the leaf hash sequence like the sequence
\* operation: add_leaf(x) appends hash_data(x), delete_leaf(i) removes
\* position i and shifts the later leaves down, update_leaf(i, x) overwrites
\* position i with hash_data(x); the other leaves keep hash and order.
C12_MutationsAreSequenceOps ==
    [][/\ ret'.op = "add_leaf" =>
            /\ compact_leaves' = compact_leaves \o <<get_hash_from_data(ret'.data[1])>>
            /\ Full_leaf_hashes' = Full_leaf_hashes \o <<get_hash_from_data(ret'.data[1])>>
       /\ (ret'.op = "delete_leaf" /\ ret'.index[1] < Len(compact_leaves)) =>
            /\ compact_leaves' = DeletedAt(compact_leaves, ret'.index[1])
            /\ Full_leaf_hashes' = DeletedAt(Full_leaf_hashes, ret'.index[1])
       /\ (ret'.op = "update_leaf" /\ ret'.index[1] < Len(compact_leaves)) =>
            /\ compact_leaves' =
                 [k \in 1..Len(compact_leaves) |->
                    IF k = ret'.index[1] + 1 THEN get_hash_from_data(ret'.data[1])
                    ELSE compact_leaves[k]]
            /\ Full_leaf_hashes' =
                 [k \in 1..Len(Full_leaf_hashes) |->
                    IF k = ret'.index[1] + 1 THEN get_hash_from_data(ret'.data[1])
                    ELSE Full_leaf_hashes[k]]]_vars

\* delete_leaf(1) has left three leaves whose hashes are not all the same:
\* the two leaves after the deleted one moved down by one
C12_Witness ==
    /\ ret.op = "delete_leaf" /\ ret.index = Some(1)
    /\ ret.compact = <<"Unit">> /\ ret.full = <<"Unit">>
    /\ compact_leaves = <<get_hash_from_data(Raw(1)), get_hash_from_data(Raw(2)),
                          get_hash_from_data(Raw(1))>>
    /\ Full_leaf_hashes = compact_leaves

IsPowerOfTwo(n) == \E k \in 0..n : 2 ^ k = n

RECURSIVE ReferenceLevels(_)
ReferenceLevels(level) ==
    IF Len(level) <= 1 THEN <<level>>
    ELSE <<level>> \o ReferenceLevels(ReferenceLevel(level))

\* the proof the claim describes for the 0-based index i: one hash per level
\* below the root, at the position of i at that level with the lowest bit
\* flipped or, when that is past the end of the level, at the position itself
ReferenceProof(leaves, i) ==
    LET levels == ReferenceLevels(leaves)
    IN  [k \in 1..(Len(levels) - 1) |->
            LET position == i \div (2 ^ (k - 1))
                flipped == IF position % 2 = 0 THEN position + 1 ELSE position - 1
            IN  IF flipped < Len(levels[k]) THEN levels[k][flipped + 1]
                ELSE levels[k][position + 1]]

Queries == {"gen_proof", "verify_proof", "get_leaf_by_idx", "get_leaf_by_hash",
            "contains_hash"}

RECURSIVE Ancestors(_, _)
Ancestors(h, n) ==
    LET parent_node == get_parent(h, n)
    IN  IF parent_node = None THEN {n} ELSE {n} \cup Ancestors(h, parent_node[1])

\* C18: in the full variant's node graph, a node reached from a leaf by
\* following parent references has no resolvable sibling if and only if it
\* is the root, so the proof walk stops at the root and never earlier, also
\* at a node that was the odd one out at its level.
C18_NoSiblingIffRoot ==
    \A k \in 1..Len(full_leaves) :
        /\ full_tree \in Ancestors(heap, full_leaves[k])
        /\ \A n \in Ancestors(heap, full_leaves[k]) :
              (get_sibling(heap, n, 0) = None) <=> (n = full_tree)

\* the levels of the node graph, from the leaves to the root: the next
\* level holds the parents of the nodes at the odd places (first, third, ..)
Full_parents(h, level) ==
    [k \in 1..((Len(level) + 1) \div 2) |-> h[level[2 * k - 1]].parent[1]]

RECURSIVE Full_levels(_, _)
Full_levels(h, level) ==
    IF Len(level) <= 1 THEN <<level>>
    ELSE <<level>> \o Full_levels(h, Full_parents(h, level))

\* the lone trailing nodes: the last node of every level of odd size above one
LoneNodes ==
    LET levels == Full_levels(heap, full_leaves)
    IN  {levels[j][Len(levels[j])] :
            j \in {i \in 1..Len(levels) : Len(levels[i]) > 1 /\ ~is_even(Len(levels[i]))}}

\* the number of nodes on the levels of the graph
RECURSIVE LevelNodes(_)
LevelNodes(levels) ==
    IF levels = <<>> THEN 0 ELSE Len(Head(levels)) + LevelNodes(Tail(levels))

CurrentGraph ==
    IF full_tree \in DOMAIN heap THEN Owned(heap, {full_tree}) ELSE {}

\* C20: in the full variant, after construction and after every rebuild,
\* every node of the current graph except the root has a resolvable parent
\* that is a node of the current graph whose children include the node, the
\* current root has no resolvable parent, and no leaf keeps a resolvable
\* parent or sibling reference into the graph of a previous build.
C20_ParentsInCurrentGraph ==
    (full_status = "ok" /\ full_leaves # <<>>) =>
        /\ \A n \in CurrentGraph \ {full_tree} :
              /\ get_parent(heap, n) # None
              /\ get_parent(heap, n)[1] \in CurrentGraph
              /\ heap[get_parent(heap, n)[1]].children # None
              /\ \E k \in 1..Len(heap[get_parent(heap, n)[1]].children[1]) :
                    heap[get_parent(heap, n)[1]].children[1][k] = n
        /\ get_parent(heap, full_tree) = None
        /\ \A k \in 1..Len(full_leaves) :
              /\ get_parent(heap, full_leaves[k]) # None =>
                    get_parent(heap, full_leaves[k])[1] \in CurrentGraph
              /\ get_sibling(heap, full_leaves[k], 0) # None =>
                    get_sibling(heap, full_leaves[k], 0)[1] \in CurrentGraph

\* the nodes a node owns: its children
Children(h, n) ==
    IF h[n].children = None THEN {}
    ELSE {h[n].children[1][k] : k \in 1..Len(h[n].children[1])}

\* the nodes some caller's reference keeps alive
HeldNodes == Owned(heap, {held[k] : k \in 1..Len(held)})

\* the leaf nodes of the current leaf sequence
LeafNodes == {full_leaves[k] : k \in 1..Len(full_leaves)}

\* C21: in the full variant, in every reachable state, the owning references
\* go from a parent to its children only and form no cycle, and after a
\* rebuild every node of the previous graph that is neither in the current
\* leaf sequence nor in the current graph is released.
C21_OnlyCurrentNodesAlive ==
    /\ \A n \in DOMAIN heap : n \notin Owned(heap, Children(heap, n))
    /\ DOMAIN heap = LeafNodes \cup CurrentGraph

\* C21 as amended: the owning references inside the graph go from a parent
\* to its children only and form no cycle; parent and sibling references
\* keep no node alive, so every node that is neither in the current leaf
\* sequence nor in the current graph nor owned by a caller is released, and
\* every parent or sibling reference to a released node no longer resolves.
C21_WeakReferencesKeepNothingAlive ==
    /\ \A n \in DOMAIN heap : n \notin Owned(heap, Children(heap, n))
    /\ DOMAIN heap = LeafNodes \cup CurrentGraph \cup HeldNodes
    /\ \A n \in DOMAIN heap :
          /\ (IF heap[n].parent = None THEN {} ELSE {heap[n].parent[1]}) \subseteq DOMAIN heap \cup {Dangling}
          /\ (IF heap[n].siblings = None THEN {} ELSE {heap[n].siblings[1][k] : k \in 1..Len(heap[n].siblings[1])}) \subseteq DOMAIN heap \cup {Dangling}

\* delete_leaf has removed the leaf a caller keeps: the node is alive outside
\* the tree, the parent it refers to was released with the previous graph
\* and the reference no longer resolves
C21_Witness ==
    /\ ret.op = "delete_leaf" /\ ret.full = <<"Unit">>
    /\ held # None
    /\ held[1] \in DOMAIN heap
    /\ held[1] \notin LeafNodes \cup CurrentGraph
    /\ heap[held[1]].parent = Some(Dangling)
    /\ Len(full_leaves) >= 2

\* the non-empty sequences of leaf hashes the containers can hold
LeafSequences ==
    UNION {[1..n -> {get_hash_from_data(el) : el \in Items}] : n \in 1..MaxLeaves}

\* C22: the root hash identifies the leaf sequence: every non-empty sequence
\* of leaf hashes other than the one a container holds (another length, or
\* another hash at some position) reduces to a root hash other than the
\* container's, the digest function being collision-free.
C22_RootIdentifiesLeaves ==
    Running =>
        \A other \in LeafSequences :
            /\ other # compact_leaves =>
                  calculate_root(other) # <<"Ok", compact_root_hash>>
            /\ other # Full_leaf_hashes =>
                  calculate_root(other) # <<"Ok", full_root_hash>>

====
